---- MODULE Spec2Model ----
(***************************************************************************)
(* Space vector modulation handler of francor_embedded_libs:               *)
(*   SVMHandler<BitPrecision, CCRMax>  (svm_handler.h)                     *)
(*   QVariable<int32_t, 10> = fxp      (qvariable.h, latest revision)      *)
(*   SVMLUTRAM<BitPrecision, CCRMax>   (svm_lut.h; the class itself is not *)
(*                                      in the source tree, see below)     *)
(*   SVMLUTROM<BitPrecision, CCRMax>   (svm_lut.h)                         *)
(*   SVMPWMLUT<NumValues, CCRMax>, SVMPWM<AnglePrec, CCRMax> (svm_utils.h) *)
(* The handler is instantiated as in TEST(SVMHandler, CCRCalculation):     *)
(* SVMHandler<3, 1000>.                                                    *)
(***************************************************************************)
EXTENDS Integers, Sequences, FiniteSets, TLC

VARIABLES
    _elec_angle,    \* int32_t  _elec_angle
    _sector,        \* uint8_t  _sector
    _sector_angle,  \* uint16_t _sector_angle
    _ccr_chn1,      \* uint16_t _ccr_chn1
    _ccr_chn2,      \* uint16_t _ccr_chn2
    _ccr_chn3,      \* uint16_t _ccr_chn3
    op,             \* history: the last member function called
    arg,            \* history: its argument (value, delta or raw m)
    steps,          \* history: number of calls made by the single-step drivers
    _angle,         \* SVMPWM: int16_t  _angle
    _actv_sec,      \* SVMPWM: uint8_t  _actv_sec
    _sec_angle,     \* SVMPWM: uint16_t _sec_angle
    pwm_ccr,        \* SVMPWM: <<_ccr_chn1, _ccr_chn2, _ccr_chn3>>
    pwm_op,         \* history: the last SVMPWM member function called
    lut_read,       \* history: the last read of a table, <<BitPrecision, idx, entry>>
    pwm_arg,        \* history: <<AnglePrec, delta>> of the last SVMPWM::move
    q_op,           \* QVariable: the operation applied to the operands
    q_frac,         \* QVariable: template parameter NumFracBits of the operands
    q_lhs,          \* QVariable: raw value of the left operand (or the argument)
    q_rhs,          \* QVariable: raw value of the right operand
    q_arg,          \* QVariable: further arguments of the operation
    q_res,          \* QVariable: outcome of the operation
    task_pc,        \* control task: its position inside move() / update()
    isr_ccr,        \* timer interrupt: the <<chn1, chn2, chn3>> it read last
    _rx_buffer,     \* STMHardware: uint8_t  _rx_buffer[STM_HW_BUF_SIZE]
    _rx_read_pos,   \* STMHardware: uint16_t _rx_read_pos
    _rx_size,       \* STMHardware: uint16_t _rx_size
    hw_op,          \* history: the last STMHardware operation
    hw_ret          \* history: the value returned by the last read()

hvars == <<_elec_angle, _sector, _sector_angle, _ccr_chn1, _ccr_chn2, _ccr_chn3>>
pwmvars == <<_angle, _actv_sec, _sec_angle, pwm_ccr, pwm_op, lut_read, pwm_arg>>
qvars == <<q_op, q_frac, q_lhs, q_rhs, q_arg, q_res>>
isrvars == <<task_pc, isr_ccr>>
hwvars == <<_rx_buffer, _rx_read_pos, _rx_size, hw_op, hw_ret>>
vars == <<_elec_angle, _sector, _sector_angle, _ccr_chn1, _ccr_chn2, _ccr_chn3,
          op, arg, steps, pwmvars, qvars, isrvars, hwvars>>

---------------------------------------------------------------------------
(* Template parameters and bounds *)

\* template parameter BitPrecision of SVMHandler / SVMLUTRAM
BitPrecision == 3

\* template parameter CCRMax of SVMHandler / SVMLUTRAM
CCRMax == 1000

\* typedef QVariable<int32_t, 10u> fxp
NumFracBits == 10

\* largest |value| handed to setElecAngle
MaxValue == 100

\* largest |_elec_angle| a move is followed to
MaxAngle == 64

\* largest |delta| handed to move
MaxDelta == 50

\* number of calls made by the single-step drivers
MaxSteps == 120

Pow2(n) == 2 ^ n

\* (1u << BitPrecision)
NumAngles == Pow2(BitPrecision)

\* constexpr int32_t elec_angle_max = (1u << BitPrecision) * 6
elec_angle_max == NumAngles * 6

\* values of static_cast<uint16_t>(x) for an int32_t x
ToUint16(x) == x % 65536

\* x >> n on a signed 32 bit integer (arithmetic shift)
ShiftRight(x, n) == x \div Pow2(n)

---------------------------------------------------------------------------
(* QVariable<int32_t, NumFracBits> on raw values *)

\* QVariable(const DataType v, const std::size_t num_frac_bits)
QFromRaw(v, num_frac_bits) ==
    IF NumFracBits >= num_frac_bits
    THEN v * Pow2(NumFracBits - num_frac_bits)
    ELSE ShiftRight(v, num_frac_bits - NumFracBits)

\* QVariable(const double v): static_cast<DataType>(v / _precision), here for
\* v = half, i.e. the bias of the explicit cast
QHalf == Pow2(NumFracBits) \div 2

\* QVariable operator * (QVariable const& rhs)
QMul(lhs, rhs) == ShiftRight(lhs * rhs, NumFracBits)

\* explicit operator DataType()
QToInt(raw) == ShiftRight(raw + QHalf, NumFracBits)

---------------------------------------------------------------------------
(* QVariable<DataType, num_frac_bits>: construction, conversion, * and / *)

\* binary digits by which a real argument of QVariable(const double v) is finer
\* than the precision: the arguments are v = k * 2^-(num_frac_bits + FineBits)
FineBits == 3

\* largest |raw value| (and |k|) of the operands
MaxRaw == 20

Abs(x) == IF x < 0 THEN -x ELSE x

\* a / b on signed integers rounded toward negative infinity (no C++ operator)
FloorDiv(a, b) == IF b < 0 THEN (-a) \div (-b) ELSE a \div b

\* a / b of C++ on signed integers, b # 0: the quotient truncated toward zero
TruncDiv(a, b) ==
    LET q == Abs(a) \div Abs(b)
    IN  IF (a < 0) # (b < 0) THEN -q ELSE q

\* static_cast<DataType>(x) for a signed DataType of the given number of bits
ToDataType(x, bits) ==
    IF bits >= 32 THEN x
    ELSE ((x + Pow2(bits - 1)) % Pow2(bits)) - Pow2(bits - 1)

\* fault variant of QFromDouble: rounds toward negative infinity
QFromDouble_floor(k) == FloorDiv(k, Pow2(FineBits))

\* QVariable(const double v): static_cast<DataType>(v / _precision); for
\* v = k * 2^-(num_frac_bits + FineBits) the quotient v / _precision is
\* k / 2^FineBits exactly, and the cast drops its fraction (toward zero)
QFromDouble(k) == TruncDiv(k, Pow2(FineBits))

\* operator const double(): _raw_value * _precision, in units of
\* 2^-(num_frac_bits + FineBits)
QToDouble(raw) == raw * Pow2(FineBits)

\* fault variant of operatorMul: the quotient is truncated toward zero
operatorMul_trunc(lhs, rhs, num_frac_bits) == TruncDiv(lhs * rhs, Pow2(num_frac_bits))

\* QVariable operator * : (_raw_value * rhs._raw_value) >> NumFracBits
operatorMul(lhs, rhs, num_frac_bits) == ShiftRight(lhs * rhs, num_frac_bits)

\* fault variant of operatorDiv: the quotient is rounded toward negative infinity
operatorDiv_floor(lhs, rhs, num_frac_bits) == FloorDiv(lhs * Pow2(num_frac_bits), rhs)

\* QVariable operator / for rhs._raw_value # 0:
\* (_raw_value << NumFracBits) / rhs._raw_value
operatorDiv(lhs, rhs, num_frac_bits) == TruncDiv(lhs * Pow2(num_frac_bits), rhs)

\* fault variant of convert: the widening shift is one bit short
convert_short(raw, src_frac_bits, dst_frac_bits, bits) ==
    IF dst_frac_bits > src_frac_bits
    THEN ToDataType(ToDataType(raw, bits) * Pow2(dst_frac_bits - src_frac_bits - 1), bits)
    ELSE ShiftRight(ToDataType(raw, bits), src_frac_bits - dst_frac_bits)

\* QVariable<DataType, dst_frac_bits>::convert(v) for a v of src_frac_bits
\* fractional bits and raw value raw; DataType is signed and bits wide:
\* static_cast<DataType>(v.getRawValue()) << or >> the difference
convert(raw, src_frac_bits, dst_frac_bits, bits) ==
    IF dst_frac_bits >= src_frac_bits
    THEN ToDataType(ToDataType(raw, bits) * Pow2(dst_frac_bits - src_frac_bits), bits)
    ELSE ShiftRight(ToDataType(raw, bits), src_frac_bits - dst_frac_bits)

\* QVariable bias(0.5) of the explicit cast: the double constructor applied to 0.5
castBias(num_frac_bits) ==
    TruncDiv(Pow2(num_frac_bits + FineBits) \div 2, Pow2(FineBits))

\* fault variant of operatorDataType: the bias is not added
operatorDataType_noBias(raw, num_frac_bits) == ShiftRight(raw, num_frac_bits)

\* explicit operator DataType() of QVariable<DataType, num_frac_bits>:
\* (*this + bias)._raw_value >> NumFracBits
operatorDataType(raw, num_frac_bits) ==
    ShiftRight(raw + castBias(num_frac_bits), num_frac_bits)

---------------------------------------------------------------------------
(* Lookup table *)

\* round(CCRMax * sin(60 deg - idx * 60 deg / 2^BitPrecision)), idx = 0 .. 2^BitPrecision,
\* for BitPrecision = 3 and CCRMax = 1000 (what the constexpr constructor stores)
SVMLUTROM == <<866, 793, 707, 609, 500, 383, 259, 131, 0>>

\* the RAM table: the first 2^BitPrecision entries, no boundary entry
SVMLUTRAM == SubSeq(SVMLUTROM, 1, NumAngles)

\* SVMLUTRAM::getScaleA(sector_angle) = table[sector_angle]
getScaleA(sector_angle) == SVMLUTRAM[sector_angle + 1]

\* SVMLUTRAM::getScaleB(sector_angle) = table[N - sector_angle - 1]
getScaleB(sector_angle) == SVMLUTRAM[(NumAngles - sector_angle - 1) + 1]

---------------------------------------------------------------------------
(* SVMHandler *)

\* fault variant of limitElecAngle: the overflow test is > instead of >=
limitElecAngle_gt(elec_angle) ==
    IF elec_angle > elec_angle_max THEN elec_angle - elec_angle_max
    ELSE IF elec_angle < 0 THEN elec_angle + elec_angle_max
    ELSE elec_angle

\* fault variant of limitElecAngle: the underflow correction lands one short
limitElecAngle_short(elec_angle) ==
    IF elec_angle >= elec_angle_max THEN elec_angle - elec_angle_max
    ELSE IF elec_angle < 0 THEN elec_angle + elec_angle_max - 1
    ELSE elec_angle

\* fault variant of limitElecAngle: the underflow branch is missing
limitElecAngle_noUnderflow(elec_angle) ==
    IF elec_angle >= elec_angle_max THEN elec_angle - elec_angle_max
    ELSE elec_angle

\* limitElecAngle, first part: one correction by elec_angle_max
limitElecAngle(elec_angle) ==
    IF elec_angle >= elec_angle_max THEN elec_angle - elec_angle_max
    ELSE IF elec_angle < 0 THEN elec_angle + elec_angle_max
    ELSE elec_angle

\* fault variant of extractSectorAngle: the mask is one bit too wide
extractSectorAngle_wide(elec_angle) == ToUint16(elec_angle % (2 * NumAngles))

\* _elec_angle & ((1u << BitPrecision) - 1), as uint16_t
extractSectorAngle(elec_angle) == ToUint16(elec_angle % NumAngles)

\* (_elec_angle >> BitPrecision) & 0x07, as uint8_t
extractSector(elec_angle) == ShiftRight(elec_angle, BitPrecision) % 8

\* fault variant of calcCCR0: halves without the + 1
calcCCR0_floor(ccr_a, ccr_b) ==
    LET ccr_0 == CCRMax - ccr_a - ccr_b
    IN  IF ccr_0 < 0 THEN 0 ELSE ShiftRight(ccr_0, 1)

\* ccr_0 of update: CCRMax - ccr_a - ccr_b, limited to 0, else halved rounding up
calcCCR0(ccr_a, ccr_b) ==
    LET ccr_0 == CCRMax - ccr_a - ccr_b
    IN  IF ccr_0 < 0 THEN 0 ELSE ShiftRight(ccr_0 + 1, 1)

\* scaling of one table value by the modulation factor m (raw Q10)
scaleCCR(lut_value, m) == ToUint16(QToInt(QMul(QFromRaw(lut_value, 0), m)))

\* fault variant of calculateCCRChnValues: a default case assigns the zero vector
calculateCCRChnValues_default(sector, ccr_a, ccr_b, ccr_0, old) ==
    CASE sector = 0 -> <<ccr_0, ToUint16(ccr_0 + ccr_b), ToUint16(ccr_0 + ccr_a + ccr_b)>>
      [] sector = 1 -> <<ccr_0, ToUint16(ccr_0 + ccr_a + ccr_b), ToUint16(ccr_0 + ccr_a)>>
      [] sector = 2 -> <<ToUint16(ccr_0 + ccr_b), ToUint16(ccr_0 + ccr_a + ccr_b), ccr_0>>
      [] sector = 3 -> <<ToUint16(ccr_0 + ccr_a + ccr_b), ToUint16(ccr_0 + ccr_a), ccr_0>>
      [] sector = 4 -> <<ToUint16(ccr_0 + ccr_a + ccr_b), ccr_0, ToUint16(ccr_0 + ccr_b)>>
      [] sector = 5 -> <<ToUint16(ccr_0 + ccr_a), ccr_0, ToUint16(ccr_0 + ccr_a + ccr_b)>>
      [] OTHER -> <<ccr_0, ccr_0, ccr_0>>

\* fault variant of calculateCCRChnValues: case 1 assigns channel 2 and 3 transposed
calculateCCRChnValues_swap(sector, ccr_a, ccr_b, ccr_0, old) ==
    CASE sector = 0 -> <<ccr_0, ToUint16(ccr_0 + ccr_b), ToUint16(ccr_0 + ccr_a + ccr_b)>>
      [] sector = 1 -> <<ccr_0, ToUint16(ccr_0 + ccr_a), ToUint16(ccr_0 + ccr_a + ccr_b)>>
      [] sector = 2 -> <<ToUint16(ccr_0 + ccr_b), ToUint16(ccr_0 + ccr_a + ccr_b), ccr_0>>
      [] sector = 3 -> <<ToUint16(ccr_0 + ccr_a + ccr_b), ToUint16(ccr_0 + ccr_a), ccr_0>>
      [] sector = 4 -> <<ToUint16(ccr_0 + ccr_a + ccr_b), ccr_0, ToUint16(ccr_0 + ccr_b)>>
      [] sector = 5 -> <<ToUint16(ccr_0 + ccr_a), ccr_0, ToUint16(ccr_0 + ccr_a + ccr_b)>>
      [] OTHER -> old

\* fault variant of calculateCCRChnValues: case 5 is missing from the switch
calculateCCRChnValues_no5(sector, ccr_a, ccr_b, ccr_0, old) ==
    CASE sector = 0 -> <<ccr_0, ToUint16(ccr_0 + ccr_b), ToUint16(ccr_0 + ccr_a + ccr_b)>>
      [] sector = 1 -> <<ccr_0, ToUint16(ccr_0 + ccr_a + ccr_b), ToUint16(ccr_0 + ccr_a)>>
      [] sector = 2 -> <<ToUint16(ccr_0 + ccr_b), ToUint16(ccr_0 + ccr_a + ccr_b), ccr_0>>
      [] sector = 3 -> <<ToUint16(ccr_0 + ccr_a + ccr_b), ToUint16(ccr_0 + ccr_a), ccr_0>>
      [] sector = 4 -> <<ToUint16(ccr_0 + ccr_a + ccr_b), ccr_0, ToUint16(ccr_0 + ccr_b)>>
      [] OTHER -> old

\* calculateCCRChnValues: the new <<_ccr_chn1, _ccr_chn2, _ccr_chn3>>;
\* the switch has no case for sector 6 and 7 and then writes nothing
calculateCCRChnValues(sector, ccr_a, ccr_b, ccr_0, old) ==
    CASE sector = 0 -> <<ccr_0, ToUint16(ccr_0 + ccr_b), ToUint16(ccr_0 + ccr_a + ccr_b)>>
      [] sector = 1 -> <<ccr_0, ToUint16(ccr_0 + ccr_a + ccr_b), ToUint16(ccr_0 + ccr_a)>>
      [] sector = 2 -> <<ToUint16(ccr_0 + ccr_b), ToUint16(ccr_0 + ccr_a + ccr_b), ccr_0>>
      [] sector = 3 -> <<ToUint16(ccr_0 + ccr_a + ccr_b), ToUint16(ccr_0 + ccr_a), ccr_0>>
      [] sector = 4 -> <<ToUint16(ccr_0 + ccr_a + ccr_b), ccr_0, ToUint16(ccr_0 + ccr_b)>>
      [] sector = 5 -> <<ToUint16(ccr_0 + ccr_a), ccr_0, ToUint16(ccr_0 + ccr_a + ccr_b)>>
      [] OTHER -> old

\* the assignments of limitElecAngle to the three angle members
AssignAngle(elec_angle) ==
    LET limited == limitElecAngle(elec_angle)
    IN  /\ _elec_angle' = limited
        /\ _sector_angle' = extractSectorAngle(limited)
        /\ _sector' = extractSector(limited)

\* void setElecAngle(const int32_t elec_angle)
setElecAngle(value) ==
    /\ AssignAngle(value)
    /\ UNCHANGED <<_ccr_chn1, _ccr_chn2, _ccr_chn3>>
    /\ op' = "setElecAngle"
    /\ arg' = value

\* fault variant of move: the outputs are cleared with the angle change
move_clears(delta) ==
    /\ _elec_angle + delta \in -MaxAngle .. MaxAngle
    /\ AssignAngle(_elec_angle + delta)
    /\ _ccr_chn1' = 0
    /\ _ccr_chn2' = 0
    /\ _ccr_chn3' = 0
    /\ op' = "move"
    /\ arg' = delta

\* void move(const int16_t delta)
move(delta) ==
    /\ _elec_angle + delta \in -MaxAngle .. MaxAngle
    /\ AssignAngle(_elec_angle + delta)
    /\ UNCHANGED <<_ccr_chn1, _ccr_chn2, _ccr_chn3>>
    /\ op' = "move"
    /\ arg' = delta

\* body of update: the new <<_ccr_chn1, _ccr_chn2, _ccr_chn3>> from the angle
\* members, the raw modulation factor and the old channel values
updateChannels(sector, sector_angle, m, old) ==
    LET ccr_a == scaleCCR(getScaleA(sector_angle), m)
        ccr_b == scaleCCR(getScaleB(sector_angle), m)
        ccr_0 == calcCCR0(ccr_a, ccr_b)
    IN  calculateCCRChnValues(sector, ccr_a, ccr_b, ToUint16(ccr_0), old)

\* void update(const fxp& m)
update(m) ==
    LET chn == updateChannels(_sector, _sector_angle, m,
                              <<_ccr_chn1, _ccr_chn2, _ccr_chn3>>)
    IN  /\ _ccr_chn1' = chn[1]
        /\ _ccr_chn2' = chn[2]
        /\ _ccr_chn3' = chn[3]
        /\ UNCHANGED <<_elec_angle, _sector, _sector_angle>>
        /\ op' = "update"
        /\ arg' = m

---------------------------------------------------------------------------
(* SVMLUTROM: the table of 2^BitPrecision + 1 entries *)

\* BitPrecision of the example table of the class documentation (N = 4)
DocPrecision == 2

\* SVMLUTROM<2, 1000>: round(1000 * sin(60 deg - idx * 15 deg)), idx = 0 .. 4,
\* what the constexpr constructor stores for the parameters of the example
SVMLUTROM_2 == <<866, 707, 500, 259, 0>>

\* the example table as the class documentation prints it
DocumentedTable == <<866, 707, 500, 258, 0>>

\* static const uint16_t _num_entries = (1u << BitPrecision) + 1
getNumEntries(precision) == Pow2(precision) + 1

\* _entry_list of SVMLUTROM<precision, CCRMax>
entry_list(precision) == IF precision = DocPrecision THEN SVMLUTROM_2 ELSE SVMLUTROM

\* fault variant of the ROM operator[]: reads one entry too early
romAt_prev(precision, idx) == entry_list(precision)[IF idx = 0 THEN 1 ELSE idx]

\* SVMLUTROM::operator[] (const uint16_t idx)
romAt(precision, idx) == entry_list(precision)[idx + 1]

\* the lookup of both scales in the table of 2^BitPrecision + 1 entries:
\* ccr_scale_a = lut_value[s], ccr_scale_b = lut_value[N - s]
\* (lut_rom[lut_rom.getNumEntries() - 1 - s])
romScaleA(sector_angle) == romAt(BitPrecision, sector_angle)

romScaleB(sector_angle) ==
    romAt(BitPrecision, getNumEntries(BitPrecision) - 1 - sector_angle)

\* floor(10^4 * sqrt(3))
Sqrt3Floor == CHOOSE r \in 0 .. 20000 : r * r <= 3 * 10^8 /\ (r + 1) * (r + 1) > 3 * 10^8

\* round(CCRMax * sin(15 deg)) in integers: sin(15 deg)^2 = (2 - sqrt(3)) / 4, so it
\* is the v with (2v - 1)^2 <= CCRMax^2 * (2 - sqrt(3)) < (2v + 1)^2; sqrt(3) is
\* enclosed by Sqrt3Floor / 10^4 and (Sqrt3Floor + 1) / 10^4
RoundSin15 ==
    LET scale == (CCRMax * CCRMax) \div 10^4
    IN  CHOOSE v \in 0 .. CCRMax :
            /\ (2 * v - 1) * (2 * v - 1) <= scale * (2 * 10^4 - (Sqrt3Floor + 1))
            /\ scale * (2 * 10^4 - Sqrt3Floor) < (2 * v + 1) * (2 * v + 1)

---------------------------------------------------------------------------
(* SVMPWMLUT and SVMPWM<BitPrecision, CCRMax> *)

\* SVMPWMLUT<2^BitPrecision, CCRMax>: _ccr_lut[idx] =
\* round(CCRMax * sin(60 deg - idx * 60 deg / NumValues)), idx = 0 .. NumValues - 1,
\* for NumValues = 8 and CCRMax = 1000
SVMPWMLUT == <<866, 793, 707, 609, 500, 383, 259, 131>>

\* fault variant of the SVMPWMLUT operator[]: the table starts one step late
lutAt_late(idx) == (Tail(SVMPWMLUT) \o <<0>>)[idx + 1]

\* SVMPWMLUT::operator[] (const uint16_t idx)
lutAt(idx) == SVMPWMLUT[idx + 1]

\* static constexpr uint16_t _num_angles = (1u << AnglePrec)
_num_angles == Pow2(BitPrecision)

\* static constexpr int16_t _sec_angle_mask = _num_angles - 1
_sec_angle_mask == _num_angles - 1

\* static constexpr int16_t _angle_max = _num_angles + (5u << AnglePrec)
_angle_max == _num_angles + 5 * Pow2(BitPrecision)

\* values of a conversion to int16_t
ToInt16(x) == ((x + 32768) % 65536) - 32768

\* values of static_cast<uint8_t>(x)
ToUint8(x) == x % 256

\* fault variant of mirrorIndex: the - 1 is missing
mirrorIndex_noMinus(sec_angle) == _num_angles - sec_angle

\* the index of ccr_b in updateCCRValues: _num_angles - _sec_angle - 1
mirrorIndex(sec_angle) == _num_angles - sec_angle - 1

\* void SVMPWM::move(const int16_t delta)
SVMPWM_move(delta) ==
    LET sum == ToInt16(_angle + delta)
        limited == IF sum >= _angle_max THEN ToInt16(sum - _angle_max)
                   ELSE IF sum < 0 THEN ToInt16(sum + _angle_max)
                   ELSE sum
    IN  /\ sum \in -MaxAngle .. MaxAngle
        /\ _angle' = limited
        /\ _sec_angle' = ToUint16(limited % (_sec_angle_mask + 1))
        /\ _actv_sec' = ToUint8(ShiftRight(limited, BitPrecision))
        /\ pwm_op' = "move"
        /\ pwm_arg' = <<BitPrecision, delta>>
        /\ UNCHANGED <<pwm_ccr, lut_read>>

\* _angle_max of SVMPWM<AnglePrec, CCRMax>: _num_angles + (5u << AnglePrec)
angleMaxOf(AnglePrec) == Pow2(AnglePrec) + 5 * Pow2(AnglePrec)

\* SVMPWM<AnglePrec, CCRMax>::move(delta) of an object whose _angle is angle:
\* the new <<_angle, _actv_sec, _sec_angle>>
moveOf(angle, delta, AnglePrec) ==
    LET sum == ToInt16(angle + delta)
        limited == IF sum >= angleMaxOf(AnglePrec) THEN ToInt16(sum - angleMaxOf(AnglePrec))
                   ELSE IF sum < 0 THEN ToInt16(sum + angleMaxOf(AnglePrec))
                   ELSE sum
    IN  <<limited, ToUint8(ShiftRight(limited, AnglePrec)),
          ToUint16(limited % Pow2(AnglePrec))>>

\* the switch of updateCCRValues: the new <<_ccr_chn1, _ccr_chn2, _ccr_chn3>>
SVMPWM_switch(actv_sec, ccr_a, ccr_b, ccr_0, old) ==
    CASE actv_sec = 0 -> <<ccr_0, ToUint16(ccr_0 + ccr_b), ToUint16(ccr_0 + ccr_a + ccr_b)>>
      [] actv_sec = 1 -> <<ccr_0, ToUint16(ccr_0 + ccr_a + ccr_b), ToUint16(ccr_0 + ccr_a)>>
      [] actv_sec = 2 -> <<ToUint16(ccr_0 + ccr_b), ToUint16(ccr_0 + ccr_a + ccr_b), ccr_0>>
      [] actv_sec = 3 -> <<ToUint16(ccr_0 + ccr_a + ccr_b), ToUint16(ccr_0 + ccr_a), ccr_0>>
      [] actv_sec = 4 -> <<ToUint16(ccr_0 + ccr_a + ccr_b), ccr_0, ToUint16(ccr_0 + ccr_b)>>
      [] actv_sec = 5 -> <<ToUint16(ccr_0 + ccr_a), ccr_0, ToUint16(ccr_0 + ccr_a + ccr_b)>>
      [] OTHER -> old

\* void SVMPWM::updateCCRValues(void)
updateCCRValues ==
    LET ccr_a == lutAt(_sec_angle)
        ccr_b == lutAt(mirrorIndex(_sec_angle))
        ccr_ab == ToUint16(ccr_a + ccr_b)
        ccr_0 == IF ccr_ab < CCRMax THEN ShiftRight(CCRMax - ccr_ab, 1) ELSE 0
    IN  /\ pwm_ccr' = SVMPWM_switch(_actv_sec, ccr_a, ccr_b, ccr_0, pwm_ccr)
        /\ pwm_op' = "updateCCRValues"
        /\ UNCHANGED <<_angle, _actv_sec, _sec_angle, lut_read, pwm_arg>>

\* a read of SVMLUTROM<precision, CCRMax>[idx]
readEntry(precision, idx) ==
    /\ lut_read' = <<precision, idx, romAt(precision, idx)>>
    /\ UNCHANGED <<_angle, _actv_sec, _sec_angle, pwm_ccr, pwm_op, pwm_arg>>

---------------------------------------------------------------------------
(* Reference of the tests *)

\* round(sin(k * 60 deg / 2^BitPrecision) * ccr_max * mod), k = 0 .. 2^BitPrecision,
\* for ccr_max = 1000 and mod = 1.0: the rounded doubles of calcExpCCRValues
RefSin == <<0, 131, 259, 383, 500, 609, 707, 793, 866>>

\* calcExpCCRValues(ccr1, ccr2, ccr3, angle_deg, 1000, 1.0) at
\* angle_deg = angle_idx * 60 / 2^BitPrecision
calcExpCCRValues(angle_idx) ==
    LET sector == angle_idx \div NumAngles
        sec_angle == angle_idx - sector * NumAngles
        ccra_u == ToUint16(RefSin[(NumAngles - sec_angle) + 1])
        ccrb_u == ToUint16(RefSin[sec_angle + 1])
        ccr0_u == ToUint16(ShiftRight(CCRMax - ccra_u - ccrb_u + 1, 1))
        s == sector % 6
    IN  CASE s = 0 -> <<ccr0_u, ToUint16(ccr0_u + ccrb_u), ToUint16(ccr0_u + ccra_u + ccrb_u)>>
          [] s = 1 -> <<ccr0_u, ToUint16(ccr0_u + ccra_u + ccrb_u), ToUint16(ccr0_u + ccra_u)>>
          [] s = 2 -> <<ToUint16(ccr0_u + ccrb_u), ToUint16(ccr0_u + ccra_u + ccrb_u), ccr0_u>>
          [] s = 3 -> <<ToUint16(ccr0_u + ccra_u + ccrb_u), ToUint16(ccr0_u + ccra_u), ccr0_u>>
          [] s = 4 -> <<ToUint16(ccr0_u + ccra_u + ccrb_u), ccr0_u, ToUint16(ccr0_u + ccrb_u)>>
          [] s = 5 -> <<ToUint16(ccr0_u + ccra_u), ccr0_u, ToUint16(ccr0_u + ccra_u + ccrb_u)>>

---------------------------------------------------------------------------
(* Callers *)

\* arguments of setElecAngle
Values == -MaxValue .. MaxValue

\* arguments of move: single steps and deltas around elec_angle_max
Deltas == {d \in -MaxDelta .. MaxDelta :
              \/ d \in -2 .. 2
              \/ d >= elec_angle_max - 1
              \/ d <= 1 - elec_angle_max}

\* arguments of setElecAngle next to the sector boundaries
BoundaryValues == {v \in Values : v % (2 * NumAngles) \in {0, 2 * NumAngles - 1}}

\* raw Q10 modulation factors: 0.0, 0.5, 1.0 and an over-modulating 1.5
ModFactors == {0, 512, 1024, 1536}

\* SVMHandler(): the default member initialisers
InitSVMHandler ==
    /\ _elec_angle = 0
    /\ _sector = 0
    /\ _sector_angle = 0
    /\ _ccr_chn1 = 0
    /\ _ccr_chn2 = 0
    /\ _ccr_chn3 = 0
    /\ op = "init"
    /\ arg = 0
    /\ steps = 0

\* SVMPWM(): the default member initialisers; no table entry has been read
InitSVMPWM ==
    /\ _angle = 0
    /\ _actv_sec = 0
    /\ _sec_angle = 0
    /\ pwm_ccr = <<0, 0, 0>>
    /\ pwm_op = "init"
    /\ lut_read = <<0, 0, 0>>
    /\ pwm_arg = <<BitPrecision, 0>>

\* no QVariable operation is under way
InitQVariable ==
    /\ q_op = "none"
    /\ q_frac = NumFracBits
    /\ q_lhs = 0
    /\ q_rhs = 0
    /\ q_arg = <<0, 0>>
    /\ q_res = <<"none", 0>>

\* the control task is between two calls and the interrupt has not run
InitISR ==
    /\ task_pc = "idle"
    /\ isr_ccr = <<0, 0, 0>>

\* STMHardware after init(), as TEST(STMHardware, ReadNoData) expects it
InitSTMHardware ==
    /\ _rx_buffer = <<>>
    /\ _rx_read_pos = 0
    /\ _rx_size = 0
    /\ hw_op = "init"
    /\ hw_ret = 0

Init == InitSVMHandler /\ InitSVMPWM /\ InitQVariable /\ InitISR /\ InitSTMHardware

\* a control task that sets the angle, steps it by one increment and updates
CallSetElecAngle == \E value \in BoundaryValues : setElecAngle(value) /\ UNCHANGED <<steps, pwmvars, qvars, isrvars, hwvars>>

CallMove == \E delta \in {-1, 1} : move(delta) /\ UNCHANGED <<steps, pwmvars, qvars, isrvars, hwvars>>

CallUpdate == \E m \in ModFactors : update(m) /\ UNCHANGED <<steps, pwmvars, qvars, isrvars, hwvars>>

Next == CallSetElecAngle \/ CallMove \/ CallUpdate

Spec == Init /\ [][Next]_vars

\* a caller of the angle functions alone, with any value and any delta
AnySetElecAngle == \E value \in Values : setElecAngle(value) /\ UNCHANGED <<steps, pwmvars, qvars, isrvars, hwvars>>

AnyMove == \E delta \in Deltas : move(delta) /\ UNCHANGED <<steps, pwmvars, qvars, isrvars, hwvars>>

NextAngle == AnySetElecAngle \/ AnyMove

SpecAngle == Init /\ [][NextAngle]_vars

\* a caller that keeps to deltas of at most one revolution
SmallDeltas == -elec_angle_max .. elec_angle_max

SmallMove == \E delta \in SmallDeltas : move(delta) /\ UNCHANGED <<steps, pwmvars, qvars, isrvars, hwvars>>

SpecSmall == Init /\ [][SmallMove]_vars

\* raw Q10 value of fxp(1.0)
FxpOne == Pow2(NumFracBits)

\* the loop of TEST(SVMHandler, CCRCalculation): update(fxp(1.0)) and move(1)
StepPos ==
    steps < MaxSteps /\ move(1) /\ steps' = steps + 1 /\ UNCHANGED <<pwmvars, qvars, isrvars, hwvars>>

UpdateFull == update(FxpOne) /\ UNCHANGED <<steps, pwmvars, qvars, isrvars, hwvars>>

NextPos == StepPos \/ UpdateFull

SpecPos == Init /\ [][NextPos]_vars

\* the loop of TEST(SVMHandler, CCRCalculationNeg): update(fxp(1.0)) and move(-1)
StepNeg ==
    steps < MaxSteps /\ move(-1) /\ steps' = steps + 1 /\ UNCHANGED <<pwmvars, qvars, isrvars, hwvars>>

NextNeg == StepNeg \/ UpdateFull

SpecNeg == Init /\ [][NextNeg]_vars

---------------------------------------------------------------------------
(* Callers of SVMPWM and of the tables *)

svmvars == <<hvars, op, arg, steps>>

\* an SVMHandler and an SVMPWM object, each moved with any argument
HandlerSetElecAngle ==
    \E value \in BoundaryValues : setElecAngle(value) /\ UNCHANGED <<steps, pwmvars, qvars, isrvars, hwvars>>

HandlerMove == \E delta \in Deltas : move(delta) /\ UNCHANGED <<steps, pwmvars, qvars, isrvars, hwvars>>

PwmMove == \E delta \in Deltas : SVMPWM_move(delta) /\ UNCHANGED <<svmvars, qvars, isrvars, hwvars>>

NextIndex == HandlerSetElecAngle \/ HandlerMove \/ PwmMove

SpecIndex == Init /\ [][NextIndex]_vars

\* the loops of TEST(SVMPWM, CCRCalculation) and CCRCalculationNeg:
\* updateCCRValues and move(1) or move(-1); and reads of the ROM tables
PwmStep == \E delta \in {-1, 1} : SVMPWM_move(delta) /\ UNCHANGED <<svmvars, qvars, isrvars, hwvars>>

PwmUpdate == updateCCRValues /\ UNCHANGED <<svmvars, qvars, isrvars, hwvars>>

ReadEntry ==
    \E precision \in {DocPrecision, BitPrecision} :
        \E idx \in 0 .. getNumEntries(precision) - 1 :
            readEntry(precision, idx) /\ UNCHANGED <<svmvars, qvars, isrvars, hwvars>>

NextPWM == PwmStep \/ PwmUpdate \/ ReadEntry

SpecPWM == Init /\ [][NextPWM]_vars

chn == <<_ccr_chn1, _ccr_chn2, _ccr_chn3>>

---------------------------------------------------------------------------
(* The routing alone *)

\* values of ccr_a and ccr_b: zero, one and table entries
RouteValues == {0, 1, 131, 500, 866}

\* values of ccr_0
RouteZeros == {0, 1, 67, 500}

\* an SVMHandler at the start of any of the six sectors
InitRoute ==
    /\ _sector \in 0 .. 5
    /\ _elec_angle = _sector * NumAngles
    /\ _sector_angle = 0
    /\ _ccr_chn1 = 0
    /\ _ccr_chn2 = 0
    /\ _ccr_chn3 = 0
    /\ op = "init"
    /\ arg = <<0, 0, 0>>
    /\ steps = 0
    /\ InitSVMPWM
    /\ InitQVariable
    /\ InitISR
    /\ InitSTMHardware

\* calculateCCRChnValues(ccr_a, ccr_b, ccr_0) called in the sector of the object
Route ==
    \E ccr_a \in RouteValues, ccr_b \in RouteValues, ccr_0 \in RouteZeros :
        LET routed == calculateCCRChnValues(_sector, ccr_a, ccr_b, ccr_0,
                                            <<_ccr_chn1, _ccr_chn2, _ccr_chn3>>)
        IN  /\ _ccr_chn1' = routed[1]
            /\ _ccr_chn2' = routed[2]
            /\ _ccr_chn3' = routed[3]
            /\ op' = "calculateCCRChnValues"
            /\ arg' = <<ccr_a, ccr_b, ccr_0>>
            /\ UNCHANGED <<_elec_angle, _sector, _sector_angle, steps,
                           pwmvars, qvars, isrvars, hwvars>>

NextRoute == Route

SpecRoute == InitRoute /\ [][NextRoute]_vars

---------------------------------------------------------------------------
(* The usage example: updateSVMTask and TimerPeriodElapsedInterrupt *)

\* updateSVMTask: g_svm_handler.move(1)
TaskMove ==
    /\ task_pc = "idle"
    /\ move(1)
    /\ task_pc' = "move"
    /\ UNCHANGED <<steps, pwmvars, qvars, hwvars, isr_ccr>>

\* updateSVMTask: g_svm_handler.update(), up to the assignment of _ccr_chn1
TaskWriteChn1 ==
    /\ task_pc = "move"
    /\ _ccr_chn1' = updateChannels(_sector, _sector_angle, FxpOne, chn)[1]
    /\ task_pc' = "chn1"
    /\ op' = "update"
    /\ arg' = FxpOne
    /\ UNCHANGED <<_elec_angle, _sector, _sector_angle, _ccr_chn2, _ccr_chn3,
                   steps, pwmvars, qvars, hwvars, isr_ccr>>

\* update(): the assignment of _ccr_chn2
TaskWriteChn2 ==
    /\ task_pc = "chn1"
    /\ _ccr_chn2' = updateChannels(_sector, _sector_angle, FxpOne, chn)[2]
    /\ task_pc' = "chn2"
    /\ UNCHANGED <<_elec_angle, _sector, _sector_angle, _ccr_chn1, _ccr_chn3,
                   op, arg, steps, pwmvars, qvars, hwvars, isr_ccr>>

\* update(): the assignment of _ccr_chn3, and the return
TaskWriteChn3 ==
    /\ task_pc = "chn2"
    /\ _ccr_chn3' = updateChannels(_sector, _sector_angle, FxpOne, chn)[3]
    /\ task_pc' = "idle"
    /\ UNCHANGED <<_elec_angle, _sector, _sector_angle, _ccr_chn1, _ccr_chn2,
                   op, arg, steps, pwmvars, qvars, hwvars, isr_ccr>>

\* TimerPeriodElapsedInterrupt: it preempts the task at any position and
\* reads getCCRChn1(), getCCRChn2(), getCCRChn3() before the task goes on
TimerPeriodElapsedInterrupt ==
    /\ isr_ccr' = chn
    /\ UNCHANGED <<svmvars, pwmvars, qvars, hwvars, task_pc>>

NextISR ==
    \/ TaskMove \/ TaskWriteChn1 \/ TaskWriteChn2 \/ TaskWriteChn3
    \/ TimerPeriodElapsedInterrupt

SpecISR == Init /\ [][NextISR]_vars

\* the outputs of the single update calls of the task, and the initial outputs
CompleteOutputs ==
    {<<0, 0, 0>>} \cup
    {updateChannels(extractSector(e), extractSectorAngle(e), FxpOne, <<0, 0, 0>>) :
        e \in 0 .. elec_angle_max - 1}

---------------------------------------------------------------------------
(* SVMPWM with the angle precisions of the tests and the largest one *)

\* template parameter AnglePrec: Q8 and Q10 of the tests, and the ends of 7..12
AnglePrecs == {7, 8, 10, 12}

\* angles next to both ends of [0, _angle_max)
WideAngles(AnglePrec) == {0, 9, angleMaxOf(AnglePrec) - 11, angleMaxOf(AnglePrec) - 1}

\* arguments of move: single steps, the 20 of the tests and a full revolution
WideDeltas(AnglePrec) == {-angleMaxOf(AnglePrec), -20, -1, 1, 20, angleMaxOf(AnglePrec)}

\* an SVMPWM<AnglePrec, CCRMax> whose angle earlier moves have set
InitWide ==
    /\ InitSVMHandler
    /\ InitQVariable
    /\ InitISR
    /\ InitSTMHardware
    /\ \E AnglePrec \in AnglePrecs :
          /\ pwm_arg = <<AnglePrec, 0>>
          /\ _angle \in WideAngles(AnglePrec)
          /\ _actv_sec = ToUint8(ShiftRight(_angle, AnglePrec))
          /\ _sec_angle = ToUint16(_angle % Pow2(AnglePrec))
    /\ pwm_ccr = <<0, 0, 0>>
    /\ pwm_op = "init"
    /\ lut_read = <<0, 0, 0>>

\* move(delta) of that object, followed from angles inside [0, _angle_max)
WideMove ==
    /\ _angle \in 0 .. angleMaxOf(pwm_arg[1]) - 1
    /\ \E delta \in WideDeltas(pwm_arg[1]) :
          LET moved == moveOf(_angle, delta, pwm_arg[1])
          IN  /\ _angle' = moved[1]
              /\ _actv_sec' = moved[2]
              /\ _sec_angle' = moved[3]
              /\ pwm_arg' = <<pwm_arg[1], delta>>
    /\ pwm_op' = "move"
    /\ UNCHANGED <<svmvars, qvars, isrvars, hwvars, pwm_ccr, lut_read>>

NextWide == WideMove

SpecWide == InitWide /\ [][NextWide]_vars

---------------------------------------------------------------------------
(* STMHardware: the rosserial hardware representation *)

\* longest message copied into the receive buffer
MaxMsg == 3

\* bytes of a message: 'H' and 'e' of "Hello World!"
Bytes == {72, 101}

\* the messages of at most MaxMsg bytes
Messages == UNION {[1 .. n -> Bytes] : n \in 1 .. MaxMsg}

\* STMHardware(void): the constructor initialises _serial and _baud only, the
\* receive members hold whatever the storage held
InitReceive ==
    /\ InitSVMHandler
    /\ InitSVMPWM
    /\ InitQVariable
    /\ InitISR
    /\ _rx_buffer \in [1 .. MaxMsg -> Bytes \cup {0}]
    /\ _rx_read_pos \in 0 .. MaxMsg
    /\ _rx_size \in 0 .. MaxMsg
    /\ hw_op = "constructor"
    /\ hw_ret = 0

\* void STMHardware::init()
STMHardware_init ==
    /\ hw_op' = "init"
    /\ UNCHANGED <<_rx_buffer, _rx_read_pos, _rx_size, hw_ret>>

\* int STMHardware::read()
STMHardware_read ==
    /\ hw_ret' = -1
    /\ hw_op' = "read"
    /\ UNCHANGED <<_rx_buffer, _rx_read_pos, _rx_size>>

\* TEST(STMHardware, ReadData): _rx_size = msg_size; memcpy(_rx_buffer, msg, msg_size)
storeMessage(msg) ==
    /\ _rx_size' = Len(msg)
    /\ _rx_buffer' = [i \in 1 .. MaxMsg |-> IF i <= Len(msg) THEN msg[i] ELSE _rx_buffer[i]]
    /\ hw_op' = "store"
    /\ UNCHANGED <<_rx_read_pos, hw_ret>>

HwInit == STMHardware_init /\ UNCHANGED <<svmvars, pwmvars, qvars, isrvars>>

HwRead == STMHardware_read /\ UNCHANGED <<svmvars, pwmvars, qvars, isrvars>>

HwStore == \E msg \in Messages : storeMessage(msg) /\ UNCHANGED <<svmvars, pwmvars, qvars, isrvars>>

NextHw == HwInit \/ HwRead \/ HwStore

SpecHw == InitReceive /\ [][NextHw]_vars

---------------------------------------------------------------------------
(* The scaling of update for any CCRMax *)

\* largest value of int32_t, the storage type of fxp
Int32Max == 2147483647

\* lhs * rhs of two non-negative int32_t values is representable in int32_t
mulFits(lhs, rhs) == rhs = 0 \/ lhs <= Int32Max \div rhs

\* the low 32 bits of lhs * rhs read as int32_t, for 0 <= lhs and 0 <= rhs < 2^15
mulWrap32(lhs, rhs) ==
    LET low == (lhs % 65536) * rhs
        high == (lhs \div 65536) * rhs + (low \div 65536)
    IN  ToInt16(high % 65536) * 65536 + (low % 65536)

\* update: fxp fxp_ccr(lut_value, 0u); fxp_ccr = fxp_ccr * m;
\* static_cast<uint16_t>(static_cast<int32_t>(fxp_ccr)) in 32 bit arithmetic.
\* A product that int32_t cannot hold is undefined: the build leaves the low
\* 32 bits or traps.
scaleOutcomes(lut_value, m) ==
    LET fxp_ccr == QFromRaw(lut_value, 0)
    IN  IF mulFits(fxp_ccr, m)
        THEN {<<"value", scaleCCR(lut_value, m)>>}
        ELSE {<<"value", ToUint16(QToInt(ShiftRight(mulWrap32(fxp_ccr, m), NumFracBits)))>>,
              <<"trap", 0>>}

\* table values of SVMHandler<BitPrecision, CCRMax> for CCRMax in 1..65535:
\* 866 (CCRMax 1000), 2047 and 2048 (CCRMax 2364 and 2365), 56755 (CCRMax 65535)
ScaleValues == {0, 1, 131, 866, 1000, 2047, 2048, 4096, 32768, 56755}

\* raw values of the modulation factor in [0, 1]
ModRaws == {0, 1, 511, 512, 513, 1023, FxpOne}

InitScale ==
    /\ InitSVMHandler
    /\ InitSVMPWM
    /\ InitISR
    /\ InitSTMHardware
    /\ q_op = "none"
    /\ q_frac = NumFracBits
    /\ q_lhs \in ScaleValues
    /\ q_rhs \in ModRaws
    /\ q_arg = <<0, 0>>
    /\ q_res = <<"none", 0>>

\* the scaling of the table value q_lhs with the modulation factor q_rhs
Scale ==
    /\ q_op = "none"
    /\ q_op' = "scale"
    /\ q_res' \in scaleOutcomes(q_lhs, q_rhs)
    /\ UNCHANGED <<svmvars, pwmvars, isrvars, hwvars, q_frac, q_lhs, q_rhs, q_arg>>

NextScale == Scale

SpecScale == InitScale /\ [][NextScale]_vars

---------------------------------------------------------------------------
(* Callers of QVariable *)

\* NumFracBits of the operands: Q4 as in TEST(QVariable, MultiTwoQVals), and fxp
QFracBits == {4, 8, NumFracBits}

\* raw values of the operands: all small ones and those of the tests
QOperands == (-MaxRaw .. MaxRaw) \cup {40, 203, -203, 328}

\* fractional bits of the source of a conversion, relative to the destination
FracBitsOffsets == {-2, 1, 3}

\* bits of the destination storage type: int8_t and int32_t
DataTypeBits == {8, 32}

\* values a division by zero leaves in the result where it does not trap
DivZeroValues == {-1, 0}

InitOperands ==
    /\ InitSVMHandler
    /\ InitSVMPWM
    /\ InitISR
    /\ InitSTMHardware
    /\ q_op = "none"
    /\ q_frac \in QFracBits
    /\ q_lhs \in QOperands
    /\ q_rhs \in QOperands
    /\ q_arg = <<0, 0>>
    /\ q_res = <<"none", 0>>

\* QVariable<int32_t, q_frac> var(v) for v = q_lhs * 2^-(q_frac + FineBits)
ConstructDouble ==
    /\ q_op = "none"
    /\ q_op' = "double"
    /\ q_res' = <<"value", QFromDouble(q_lhs)>>
    /\ UNCHANGED <<svmvars, pwmvars, isrvars, hwvars, q_frac, q_lhs, q_rhs, q_arg>>

\* QVariable<int32_t, q_frac> res = lhs * rhs
Multiply ==
    /\ q_op = "none"
    /\ q_op' = "mul"
    /\ q_res' = <<"value", operatorMul(q_lhs, q_rhs, q_frac)>>
    /\ UNCHANGED <<svmvars, pwmvars, isrvars, hwvars, q_frac, q_lhs, q_rhs, q_arg>>

\* QVariable<int32_t, q_frac> res = lhs / rhs. The operator has no test of the
\* divisor: a zero divisor is an integer division by zero, which either traps
\* (the program is terminated, nothing returns) or leaves some value
Divide ==
    /\ q_op = "none"
    /\ q_op' = "div"
    /\ IF q_rhs # 0
       THEN q_res' = <<"value", operatorDiv(q_lhs, q_rhs, q_frac)>>
       ELSE \/ q_res' = <<"trap", 0>>
            \/ \E v \in DivZeroValues : q_res' = <<"value", v>>
    /\ UNCHANGED <<svmvars, pwmvars, isrvars, hwvars, q_frac, q_lhs, q_rhs, q_arg>>

\* QVariable<DataType, q_frac> dst; dst.convert(src) for a src of raw value q_lhs
\* and q_frac + offset fractional bits
Convert ==
    /\ q_op = "none"
    /\ \E offset \in FracBitsOffsets, bits \in DataTypeBits :
          /\ q_arg' = <<q_frac + offset, bits>>
          /\ q_res' = <<"value", convert(q_lhs, q_frac + offset, q_frac, bits)>>
    /\ q_op' = "convert"
    /\ UNCHANGED <<svmvars, pwmvars, isrvars, hwvars, q_frac, q_lhs, q_rhs>>

\* fxp dst(q_lhs, num_frac_bits)
ConstructRaw ==
    /\ q_op = "none"
    /\ q_frac = NumFracBits
    /\ \E offset \in FracBitsOffsets :
          /\ q_arg' = <<q_frac + offset, 32>>
          /\ q_res' = <<"value", QFromRaw(q_lhs, q_frac + offset)>>
    /\ q_op' = "raw"
    /\ UNCHANGED <<svmvars, pwmvars, isrvars, hwvars, q_frac, q_lhs, q_rhs>>

\* the widened value of Convert converted back to the fractional bits
\* of its source, in the same storage type
ConvertBack ==
    /\ q_op = "convert"
    /\ q_arg[1] < q_frac
    /\ q_res' = <<"value", convert(q_res[2], q_frac, q_arg[1], q_arg[2])>>
    /\ q_op' = "convertBack"
    /\ UNCHANGED <<svmvars, pwmvars, isrvars, hwvars, q_frac, q_lhs, q_rhs, q_arg>>

\* static_cast<int32_t>(QVariable<int32_t, q_frac>(raw q_lhs))
CastToInt ==
    /\ q_op = "none"
    /\ q_op' = "cast"
    /\ q_res' = <<"value", operatorDataType(q_lhs, q_frac)>>
    /\ UNCHANGED <<svmvars, pwmvars, isrvars, hwvars, q_frac, q_lhs, q_rhs, q_arg>>

NextQ ==
    \/ ConstructDouble \/ Multiply \/ Divide \/ Convert \/ ConstructRaw
    \/ ConvertBack \/ CastToInt

SpecQ == InitOperands /\ [][NextQ]_vars

---------------------------------------------------------------------------
(* Properties *)

\* the scaled a and b and the zero value of the update that was just made
\* (update leaves the angle members alone, so they are those it read)
LastA == scaleCCR(getScaleA(_sector_angle), arg)

LastB == scaleCCR(getScaleB(_sector_angle), arg)

LastZero == calcCCR0(LastA, LastB)

InRange(elec_angle) == elec_angle \in 0 .. elec_angle_max - 1

\* C1: update routes (a, b, zero) to (chn1, chn2, chn3) by the active sector:
\* 0 -> (zero, zero+b, zero+a+b); 1 -> (zero, zero+a+b, zero+a);
\* 2 -> (zero+b, zero+a+b, zero); 3 -> (zero+a+b, zero+a, zero);
\* 4 -> (zero+a+b, zero, zero+b); 5 -> (zero+a, zero, zero+a+b).
C1_Routing ==
    op = "update" =>
        LET a == LastA
            b == LastB
            zero == LastZero
        IN  /\ _sector = 0 => chn = <<zero, zero + b, zero + a + b>>
            /\ _sector = 1 => chn = <<zero, zero + a + b, zero + a>>
            /\ _sector = 2 => chn = <<zero + b, zero + a + b, zero>>
            /\ _sector = 3 => chn = <<zero + a + b, zero + a, zero>>
            /\ _sector = 4 => chn = <<zero + a + b, zero, zero + b>>
            /\ _sector = 5 => chn = <<zero + a, zero, zero + a + b>>

\* update(fxp(0.5)) at sector 5, sector angle 2: a = 354, b = 192, zero = 227
C1_Witness ==
    /\ op = "update" /\ arg = 512
    /\ _sector = 5 /\ _sector_angle = 2
    /\ LastA = 354 /\ LastB = 192 /\ LastZero = 227
    /\ chn = <<581, 227, 773>>

\* C2: from a fresh handler, after n calls of move(+1) the angle is n mod
\* 6*2^BitPrecision, the sector is 0,1,2,3,4,5,0,.. changing every 2^BitPrecision
\* calls, the sector angle counts 0 .. 2^BitPrecision-1 inside each sector, and
\* after 6*2^BitPrecision calls the state is (0, 0, 0) again.
C2_PositiveProgression ==
    /\ _elec_angle = steps % elec_angle_max
    /\ _sector = (steps \div NumAngles) % 6
    /\ _sector_angle = steps % NumAngles
    /\ steps = elec_angle_max => (_elec_angle = 0 /\ _sector = 0 /\ _sector_angle = 0)

\* the call that completes the first revolution
C2_Witness ==
    /\ op = "move" /\ arg = 1 /\ steps = elec_angle_max
    /\ _elec_angle = 0 /\ _sector = 0 /\ _sector_angle = 0

\* C3: from a fresh handler, the first move(-1) wraps the angle to
\* 6*2^BitPrecision-1 (sector 5, sector angle 2^BitPrecision-1), and after n calls
\* the state is that of the move(+1) progression run backwards: the sector runs
\* 5,4,3,2,1,0,5,.. changing every 2^BitPrecision calls.
C3_NegativeProgression ==
    LET back == (-steps) % elec_angle_max
    IN  /\ _elec_angle = back
        /\ _sector = back \div NumAngles
        /\ _sector_angle = back % NumAngles
        /\ steps > 0 => _sector = 5 - (((steps - 1) \div NumAngles) % 6)
        /\ steps = 1 => /\ _elec_angle = elec_angle_max - 1
                        /\ _sector = 5
                        /\ _sector_angle = NumAngles - 1

\* the first call, which wraps below 0
C3_Witness ==
    /\ op = "move" /\ arg = -1 /\ steps = 1
    /\ _elec_angle = elec_angle_max - 1 /\ _sector = 5 /\ _sector_angle = NumAngles - 1

\* C4: with the angle in [0, 6*2^BitPrecision) and |delta| <= 6*2^BitPrecision,
\* move(delta) sets the angle to (angle + delta) mod 6*2^BitPrecision; so under
\* such moves the angle stays in range, the sector in 0..5, the sector angle in
\* [0, 2^BitPrecision), and move(d) followed by move(-d) restores the angle.
C4_SmallMoves ==
    /\ [](/\ InRange(_elec_angle)
          /\ _sector \in 0 .. 5
          /\ _sector_angle \in 0 .. NumAngles - 1
          /\ \A d \in SmallDeltas :
                limitElecAngle(limitElecAngle(_elec_angle + d) - d) = _elec_angle)
    /\ [][op' = "move" => _elec_angle' = (_elec_angle + arg') % elec_angle_max]_vars

\* move(-6*2^BitPrecision) from the last angle of the revolution
C4_Witness ==
    /\ op = "move" /\ arg = -elec_angle_max
    /\ _elec_angle = elec_angle_max - 1 /\ _sector = 5 /\ _sector_angle = NumAngles - 1

\* C5 as stated: for every value, after setElecAngle(value) the angle lies in
\* [0, 6*2^BitPrecision) and is congruent to value modulo 6*2^BitPrecision.
C5_SetWrapsAnyValue ==
    op = "setElecAngle" =>
        /\ InRange(_elec_angle)
        /\ _elec_angle % elec_angle_max = arg % elec_angle_max

\* C5 amended: after setElecAngle(value) the angle is congruent to value modulo
\* 6*2^BitPrecision; it lies in [0, 6*2^BitPrecision) exactly when value is in
\* [-6*2^BitPrecision, 2*6*2^BitPrecision), the values one correction can wrap.
C5_SetWrapsOnce ==
    op = "setElecAngle" =>
        /\ _elec_angle % elec_angle_max = arg % elec_angle_max
        /\ InRange(_elec_angle) <=> arg \in -elec_angle_max .. 2 * elec_angle_max - 1

\* setElecAngle(2*6*2^BitPrecision - 1), the largest value that is still wrapped
C5_Witness ==
    /\ op = "setElecAngle" /\ arg = 2 * elec_angle_max - 1
    /\ _elec_angle = elec_angle_max - 1

\* C6 as stated: in every state reached through setElecAngle and move with any
\* arguments, elec_angle = sector * 2^BitPrecision + sector_angle, with
\* sector = floor(elec_angle / 2^BitPrecision) and
\* sector_angle = elec_angle mod 2^BitPrecision.
C6_InSyncAlways ==
    /\ _elec_angle = _sector * NumAngles + _sector_angle
    /\ _sector = _elec_angle \div NumAngles
    /\ _sector_angle = _elec_angle % NumAngles

\* C6 amended: in every such state sector and sector_angle are the mask/shift
\* derivation of the angle, sector_angle = elec_angle mod 2^BitPrecision and
\* sector = floor(elec_angle / 2^BitPrecision) mod 8; and
\* elec_angle = sector * 2^BitPrecision + sector_angle, with
\* sector = floor(elec_angle / 2^BitPrecision), whenever elec_angle is in
\* [0, 8*2^BitPrecision), so whenever it is normalized into [0, 6*2^BitPrecision).
C6_InSyncWithinThreeBits ==
    /\ _sector_angle = _elec_angle % NumAngles
    /\ _sector = (_elec_angle \div NumAngles) % 8
    /\ _elec_angle \in 0 .. 8 * NumAngles - 1 =>
           /\ _elec_angle = _sector * NumAngles + _sector_angle
           /\ _sector = _elec_angle \div NumAngles

\* setElecAngle(100): one correction leaves 52, sector 6, sector angle 4
C6_Witness ==
    /\ op = "setElecAngle" /\ arg = 2 * elec_angle_max + 4
    /\ _elec_angle = elec_angle_max + 4 /\ _sector = 6 /\ _sector_angle = 4

\* the channel that carries the zero value in the active sector
ZeroChannel ==
    CASE _sector \in {0, 1} -> _ccr_chn1
      [] _sector \in {2, 3} -> _ccr_chn3
      [] _sector \in {4, 5} -> _ccr_chn2

\* C7: the zero value update puts out is 0 when CCRMax - a - b is negative and
\* (CCRMax - a - b + 1) >> 1 otherwise (half, rounded up on an odd difference),
\* for the scaled a and b; over-modulation is clamped, update has no failure exit.
C7_ZeroValue ==
    (op = "update" /\ _sector \in 0 .. 5) =>
        LET diff == CCRMax - LastA - LastB
        IN  /\ diff < 0 => ZeroChannel = 0
            /\ diff >= 0 => ZeroChannel = (diff + 1) \div 2
            /\ \A i \in 1 .. 3 : ZeroChannel <= chn[i]

\* update(fxp(1.5)) at angle 3: a = 914, b = 750, the zero value is clamped to 0
C7_Witness ==
    /\ op = "update" /\ arg = 1536 /\ _elec_angle = 3
    /\ LastA = 914 /\ LastB = 750
    /\ chn = <<0, 750, 1664>>

\* C8: after update(m) with m in [0.0, 1.0] (raw 0 .. 1024) at an angle in
\* [0, 6*2^BitPrecision), each of chn1, chn2, chn3 lies in [0, CCRMax] and is at
\* least the zero value.
C8_ChannelsInRange ==
    (op = "update" /\ arg \in 0 .. FxpOne /\ InRange(_elec_angle)) =>
        \A i \in 1 .. 3 : chn[i] \in 0 .. CCRMax /\ chn[i] >= LastZero

\* C9: for modulation factor 1.0, at every step of the move(+1) loop the triple of
\* update equals the reference triple built from a = round(CCRMax*sin(60deg - theta)),
\* b = round(CCRMax*sin(theta)), zero = (CCRMax - a - b + 1) >> 1 routed by sector;
\* scale_b is the table value of the mirrored sector angle and 0 at sector angle 0.
C9_MatchesReference ==
    (op = "update" /\ arg = FxpOne) =>
        /\ chn = calcExpCCRValues(steps % elec_angle_max)
        /\ LastB = RefSin[_sector_angle + 1]
        /\ _sector_angle = 0 => LastB = 0

\* C10 as stated: the triple after update(m) is a function of (elec_angle, m)
\* only: it is the triple a fresh handler brought to the same elec_angle puts out.
C10_FunctionOfAngle ==
    op = "update" =>
        chn = updateChannels(extractSector(_elec_angle), extractSectorAngle(_elec_angle),
                             arg, <<0, 0, 0>>)

\* C10 amended: whenever the derived sector is in 0..5 the triple after update(m)
\* is a function of (elec_angle, m) only, the one a fresh handler brought to the
\* same elec_angle puts out; and a second update(m) with no move or setElecAngle
\* in between leaves chn1..chn3 unchanged, in every sector.
C10_DeterministicIdempotent ==
    /\ []((op = "update" /\ _sector \in 0 .. 5) =>
            chn = updateChannels(extractSector(_elec_angle),
                                 extractSectorAngle(_elec_angle), arg, <<0, 0, 0>>))
    /\ [][(op = "update" /\ op' = "update" /\ arg' = arg) => chn' = chn]_vars

\* update(fxp(0.5)) at the last angle of the revolution
C10_Witness ==
    /\ op = "update" /\ arg = 512
    /\ _elec_angle = elec_angle_max - 1 /\ _sector = 5
    /\ chn = updateChannels(5, NumAngles - 1, 512, <<0, 0, 0>>)
    /\ chn # <<0, 0, 0>>

\* C11: in every state reached through setElecAngle and move with any arguments,
\* the two table indices of update, sector_angle for scale_a and
\* 2^BitPrecision - sector_angle - 1 for scale_b (in SVMPWM _sec_angle and
\* _num_angles - _sec_angle - 1), lie inside the lookup table.
C11_IndicesInRange ==
    /\ _sector_angle \in 0 .. Len(SVMLUTRAM) - 1
    /\ NumAngles - _sector_angle - 1 \in 0 .. Len(SVMLUTRAM) - 1
    /\ _sec_angle \in 0 .. Len(SVMPWMLUT) - 1
    /\ mirrorIndex(_sec_angle) \in 0 .. Len(SVMPWMLUT) - 1

\* both objects hold an angle below 0 that one correction did not wrap:
\* setElecAngle(-97) and SVMPWM::move(-50)
C11_Witness ==
    /\ op = "setElecAngle" /\ _elec_angle = -elec_angle_max - 1
    /\ _sector_angle = NumAngles - 1
    /\ pwm_op = "move" /\ _angle = -2 /\ _sec_angle = NumAngles - 2 /\ _actv_sec = 255
    /\ mirrorIndex(_sec_angle) = 1

\* the channels update put above the zero level, as <<U, V, W>>
Pattern ==
    <<IF _ccr_chn1 > LastZero THEN 1 ELSE 0,
      IF _ccr_chn2 > LastZero THEN 1 ELSE 0,
      IF _ccr_chn3 > LastZero THEN 1 ELSE 0>>

\* the switching order of the class documentation, UVW
SwitchingOrder ==
    << <<0, 0, 1>>, <<0, 1, 1>>, <<0, 1, 0>>, <<1, 1, 0>>, <<1, 0, 0>>, <<1, 0, 1>> >>

\* C12: running in the positive direction with a non-zero modulation factor, at
\* sector angle 0 of sector 0,1,2,3,4,5 scale_b is 0 and below scale_a, and the
\* channels (U,V,W) that update puts above the zero level are 001, 011, 010, 110,
\* 100, 101 in this order; consecutive patterns, 101 back to 001 included, differ
\* in exactly one channel.
C12_SwitchingOrder ==
    /\ (op = "update" /\ arg # 0 /\ _sector_angle = 0 /\ _sector \in 0 .. 5) =>
           /\ LastB = 0
           /\ LastB < LastA
           /\ Pattern = SwitchingOrder[_sector + 1]
    /\ \A k \in 1 .. 6 :
           Cardinality({i \in 1 .. 3 :
               SwitchingOrder[k][i] # SwitchingOrder[(k % 6) + 1][i]}) = 1

\* round(CCRMax * sin(60 deg - idx * 60 deg / 2^precision)) by the reference of
\* the tests, whose angles are the multiples of 60 deg / 2^BitPrecision
RefEntry(precision, idx) ==
    RefSin[(NumAngles - idx * Pow2(BitPrecision - precision)) + 1]

\* what C13 says of the entries of SVMLUTROM<precision, CCRMax> apart from the
\* documented example: 2^precision + 1 entries, each the rounded sine, entry 0
\* round(CCRMax * sin(60 deg)), the last one 0, non-increasing, none above CCRMax
TableEntries(precision) ==
    LET n == getNumEntries(precision)
    IN  /\ Len(entry_list(precision)) = n
        /\ n = Pow2(precision) + 1
        /\ \A idx \in 0 .. n - 1 :
              /\ romAt(precision, idx) = RefEntry(precision, idx)
              /\ romAt(precision, idx) <= CCRMax
              /\ idx > 0 => romAt(precision, idx) <= romAt(precision, idx - 1)
        /\ romAt(precision, 0) = RefSin[NumAngles + 1]
        /\ romAt(precision, n - 1) = 0

\* every read of a table returns the rounded sine of its index
ReadsRoundedSine == lut_read[1] # 0 => lut_read[3] = RefEntry(lut_read[1], lut_read[2])

C14_SameEntries ==
    /\ Len(SVMPWMLUT) = NumAngles
    /\ Len(SVMLUTROM) = NumAngles + 1
    /\ \A idx \in 0 .. NumAngles - 1 : lutAt(idx) = romAt(BitPrecision, idx)
    /\ (lut_read[1] = BitPrecision /\ lut_read[2] < NumAngles) =>
           lut_read[3] = lutAt(lut_read[2])
    /\ pwm_op = "updateCCRValues" => lutAt(_sec_angle) = romAt(BitPrecision, _sec_angle)

\* the read of the last entry the two tables share, after an update at the
\* sector angle of that entry
C14_Witness ==
    /\ lut_read = <<BitPrecision, NumAngles - 1, 131>>
    /\ pwm_op = "updateCCRValues" /\ _sec_angle = NumAngles - 1
    /\ lutAt(_sec_angle) = 131

\* C15: for every sector angle s the two table variants yield the same pair of
\* scale values: scale_a = table[s] in both, and scale_b read as table[N - s - 1]
\* from the N-entry table (updateCCRValues) equals scale_b read as table[N - s]
\* from the (N+1)-entry table, which is round(CCRMax * sin(s * 60 deg / N)) and 0
\* at s = 0.
C15_SameScales ==
    pwm_op = "updateCCRValues" =>
        /\ lutAt(_sec_angle) = romScaleA(_sec_angle)
        /\ lutAt(mirrorIndex(_sec_angle)) = romScaleB(_sec_angle)
        /\ romScaleB(_sec_angle) = RefSin[_sec_angle + 1]
        /\ _sec_angle = 0 => lutAt(mirrorIndex(_sec_angle)) = 0

\* the value an operation returned
Result == q_res[2]

C17_MulFloors ==
    q_op = "mul" =>
        LET product == q_lhs * q_rhs
            one == Pow2(q_frac)
        IN  /\ Result * one <= product
            /\ product < (Result + 1) * one
            /\ (product < 0 /\ product % one # 0) =>
                   Result = -(Abs(product) \div one) - 1
            /\ (q_frac = 4 /\ q_lhs = 40 /\ q_rhs = -203) => Result = -508
            /\ (q_frac = 4 /\ q_lhs = 40 /\ q_rhs = 203) => Result = 507

\* TEST(QVariable, MultiTwoQVals): 2.5 * -12.7 in Q4
C17_Witness ==
    /\ q_op = "mul" /\ q_frac = 4 /\ q_lhs = 40 /\ q_rhs = -203
    /\ q_res = <<"value", -508>>

\* C18: division by a non-zero divisor yields raw = (lhs.raw * 2^NumFracBits) /
\* rhs.raw truncated toward zero, so it is sign-symmetric: x / (-y) has exactly
\* the negated raw value of x / y.
C18_DivTruncates ==
    (q_op = "div" /\ q_rhs # 0) =>
        LET numerator == q_lhs * Pow2(q_frac)
        IN  /\ Abs(Result) * Abs(q_rhs) <= Abs(numerator)
            /\ Abs(numerator) < (Abs(Result) + 1) * Abs(q_rhs)
            /\ Result > 0 => (numerator < 0) = (q_rhs < 0)
            /\ Result < 0 => (numerator < 0) # (q_rhs < 0)
            /\ Result = -operatorDiv(q_lhs, -q_rhs, q_frac)

\* 7 / -3 in raw Q10 values: 7168 / -3 = -2389 (and not -2390)
C18_Witness ==
    /\ q_op = "div" /\ q_frac = NumFracBits /\ q_lhs = 7 /\ q_rhs = -3
    /\ q_res = <<"value", -2389>>

\* C19: dividing by a QVariable whose raw value is 0 fails with a DivisionByZero
\* error that is reported to the caller; no result value is produced.
C19_DivisionByZeroReported ==
    (q_op = "div" /\ q_rhs = 0) => q_res = <<"DivisionByZero", 0>>

\* C20: a narrowing conversion (convert and the (raw, num_frac_bits) constructor
\* with a source of more fractional bits) yields the source raw value divided by
\* 2^(difference of fractional bits) truncated toward zero, for positive and
\* negative values, whenever that quotient fits the destination storage type.
C20_NarrowingTruncates ==
    (q_op \in {"convert", "raw"} /\ q_arg[1] > q_frac) =>
        LET quotient == TruncDiv(q_lhs, Pow2(q_arg[1] - q_frac))
        IN  ToDataType(quotient, q_arg[2]) = quotient => Result = quotient


\* C21: a conversion to more fractional bits multiplies the raw value by
\* 2^(difference) and keeps the represented value, and converting the result
\* back gives the original raw value, whenever the widened raw value fits the
\* storage type (Q6 raw 328 becomes Q8 raw 1312 and comes back as 328).
C21_WideningExact ==
    LET diff == q_frac - q_arg[1]
        wide == q_lhs * Pow2(diff)
    IN  (q_op \in {"convert", "convertBack"} /\ diff > 0
            /\ ToDataType(wide, q_arg[2]) = wide) =>
           /\ q_op = "convert" =>
                 /\ Result = wide
                 /\ Result * Pow2(q_arg[1]) = q_lhs * Pow2(q_frac)
           /\ q_op = "convertBack" => Result = q_lhs
           /\ convert(328, 6, 8, 32) = 1312

C21_Witness ==
    /\ q_op = "convertBack"
    /\ q_frac = 8
    /\ q_arg = <<6, 32>>
    /\ q_lhs = 328
    /\ convert(q_lhs, 6, 8, 32) = 1312
    /\ Result = 328

\* C22: the explicit cast to the storage type gives the represented value
\* rounded to the nearest integer, ties toward positive infinity, that is
\* floor((raw + 2^(NumFracBits-1)) / 2^NumFracBits), for positive and negative
\* values (-30.45 in Q15 gives -30); it is the cast SVMHandler::update uses.
C22_CastRoundsHalfUp ==
    /\ q_op = "cast" =>
          /\ 2 * Result * Pow2(q_frac) <= 2 * q_lhs + Pow2(q_frac)
          /\ 2 * q_lhs + Pow2(q_frac) < 2 * (Result + 1) * Pow2(q_frac)
          /\ q_frac = NumFracBits => Result = QToInt(q_lhs)
    /\ operatorDataType(TruncDiv(-3045 * Pow2(15), 100), 15) = -30

C22_Witness ==
    /\ q_op = "cast"
    /\ q_frac = 4
    /\ q_lhs = -8
    /\ Result = 0


\* C23: for SVMPWM with AnglePrec in 7..12, every _angle in [0, _angle_max) and
\* every delta with |delta| <= _angle_max, move(delta) sets _angle to
\* (_angle + delta) mod _angle_max with _angle_max = 6 * 2^AnglePrec, _actv_sec
\* to its quotient by 2^AnglePrec and _sec_angle to its remainder.
C23_MoveWraps ==
    [][(pwm_op' = "move" /\ _angle \in 0 .. 6 * Pow2(pwm_arg[1]) - 1) =>
          LET wrapped == (_angle + pwm_arg'[2]) % (6 * Pow2(pwm_arg[1]))
          IN  /\ angleMaxOf(pwm_arg[1]) = 6 * Pow2(pwm_arg[1])
              /\ _angle' = wrapped
              /\ _actv_sec' = wrapped \div Pow2(pwm_arg[1])
              /\ _sec_angle' = wrapped % Pow2(pwm_arg[1])]_vars


\* C24: STMHardware::read() is a non-blocking FIFO read of the receive buffer:
\* while bytes are buffered (_rx_size > 0) a call returns the byte at
\* _rx_read_pos and advances _rx_read_pos by one, and it returns -1 when no
\* byte is buffered.
C24_FifoRead ==
    [][(hw_op' = "read" /\ _rx_read_pos < Len(_rx_buffer)) =>
          IF _rx_size > 0
          THEN /\ hw_ret' = _rx_buffer[_rx_read_pos + 1]
               /\ _rx_read_pos' = _rx_read_pos + 1
          ELSE hw_ret' = -1]_vars


\* C25: the routing is continuous across every sector boundary: the triple
\* routed for sector k with (a = 0, b = X) equals the triple routed for sector
\* (k + 1) mod 6 with (a = X, b = 0), for every k in 0..5 including the wrap
\* from 5 to 0, in SVMHandler and in SVMPWM.
C25_ContinuousRouting ==
    op = "calculateCCRChnValues" =>
        /\ chn = SVMPWM_switch(_sector, arg[1], arg[2], arg[3], chn)
        /\ arg[1] = 0 =>
              /\ chn = calculateCCRChnValues((_sector + 1) % 6, arg[2], 0, arg[3], chn)
              /\ chn = SVMPWM_switch((_sector + 1) % 6, arg[2], 0, arg[3], chn)
        /\ arg[2] = 0 =>
              /\ chn = calculateCCRChnValues((_sector + 5) % 6, 0, arg[1], arg[3], chn)
              /\ chn = SVMPWM_switch((_sector + 5) % 6, 0, arg[1], arg[3], chn)

C25_Witness ==
    /\ op = "calculateCCRChnValues"
    /\ _sector = 5
    /\ arg = <<0, 866, 67>>
    /\ chn = <<67, 67, 933>>
    /\ chn = calculateCCRChnValues(0, 866, 0, 67, chn)


\* C26: in the documented usage (the task calls move then update, the timer
\* period interrupt reads the three channels and may preempt the task at any
\* point) the triple the interrupt reads is always the complete output of one
\* single update call, never a mix of two updates.
C26_NoTornRead == isr_ccr \in CompleteOutputs


\* C27: move and setElecAngle change only _elec_angle, _sector and
\* _sector_angle and never the three outputs, update changes only the three
\* outputs and never the angle members; the outputs are all 0 after
\* construction, so after a move they hold the values of the last update
\* (0 before the first one).
C27_Frames ==
    /\ chn = <<0, 0, 0>>
    /\ [][/\ op' \in {"move", "setElecAngle"} => chn' = chn
          /\ op' = "update" =>
                <<_elec_angle, _sector, _sector_angle>>' =
                    <<_elec_angle, _sector, _sector_angle>>]_vars

C27_Witness ==
    /\ op = "move"
    /\ _elec_angle = 1
    /\ chn = <<500, 500, 500>>


\* C28: whenever the derived sector is 6 or 7 (the angle was left outside
\* [0, 6 * 2^BitPrecision) by a setElecAngle or move that one correction cannot
\* wrap), update writes none of the three outputs: they keep the values of an
\* earlier angle.
C28_StaleOutputs ==
    [][(op' = "update" /\ _sector \in {6, 7}) =>
          /\ ~InRange(_elec_angle)
          /\ chn' = chn]_vars

C28_Witness ==
    /\ op = "update"
    /\ arg = FxpOne
    /\ _sector = 6
    /\ _elec_angle = -16
    /\ chn = <<500, 500, 500>>

\* C29: after update with scaled values a + b <= CCRMax, in every sector 0..5
\* the smallest channel equals zero, the largest equals zero + a + b, the
\* third lies between them, and smallest + largest is CCRMax plus the parity
\* of CCRMax - a - b (CCRMax or CCRMax + 1).
C29_CentredPattern ==
    (op = "update" /\ _sector \in 0 .. 5 /\ LastA + LastB <= CCRMax) =>
        LET smallest == CHOOSE x \in {chn[1], chn[2], chn[3]} :
                            \A y \in {chn[1], chn[2], chn[3]} : x <= y
            largest == CHOOSE x \in {chn[1], chn[2], chn[3]} :
                            \A y \in {chn[1], chn[2], chn[3]} : y <= x
        IN  /\ smallest = LastZero
            /\ largest = LastZero + LastA + LastB
            /\ \E i \in 1 .. 3 : chn[i] \in {LastZero + LastA, LastZero + LastB}
            /\ \A i \in 1 .. 3 : smallest <= chn[i] /\ chn[i] <= largest
            /\ smallest + largest = CCRMax + ((CCRMax - LastA - LastB) % 2)
            /\ smallest + largest \in {CCRMax, CCRMax + 1}

C29_Witness ==
    /\ op = "update"
    /\ arg = 512
    /\ _sector = 4
    /\ LastA + LastB <= CCRMax
    /\ (CCRMax - LastA - LastB) % 2 = 1
    /\ LastA > 0
    /\ LastB > 0


\* C30: update(fxp(1.0)) passes the table values through unscaled for every
\* CCRMax the 16 bit template parameter accepts: the Q10 product
\* (scale << 10) * 1024 never overflows the 32 bit signed arithmetic, and for
\* m in [0, 1] the scaled value is floor((scale * m.raw + 512) / 1024).
C30_ScalingNeverOverflows ==
    q_op = "scale" =>
        /\ q_res[1] = "value"
        /\ Result = ShiftRight(q_lhs * q_rhs + 512, NumFracBits)
        /\ q_rhs = FxpOne => Result = q_lhs

====
